---- MODULE Spec2Model ----
(***************************************************************************)
(* A model of sqrl.core.SQRL (src/sqrl/core.py) and sqrl.utils             *)
(* (src/sqrl/utils.py): the statement executor, the result shaper and the  *)
(* bulk loaders, over an abstract sqlite3 connection.                      *)
(*                                                                         *)
(* Text (identifiers, CSV fields, str() of a Python value) is a sequence   *)
(* of one-character strings.  A Python value is [kind, text]: its type and *)
(* its str().  A table is [name, cols, types, rows]; a database is the set *)
(* of its tables.                                                          *)
(***************************************************************************)
EXTENDS Integers, Sequences, FiniteSets, TLC

VARIABLES
  con,              \* the sqlite3 connection self.con: [db, snap, intxn]
  isolation_level,  \* the constructor's isolation_level
  last,             \* the most recent call: [op, ret, obs]
  pc,               \* per thread: position inside execute()
  cur,              \* per thread: the arguments of the call it is in
  schema,           \* self.schema: the cache of table names and their columns
  vectors           \* enable_vectors, self._vectors_enabled, self.embed_function

vars == <<con, isolation_level, last, pc, cur, schema, vectors>>

(***************************** bounds ***************************************)
MaxRows == 2        \* rows of one bulk-load input / parameter sets of a batch

\* rows a table may hold before the model stops inserting into it
MaxTableRows == MaxRows

MaxLen == 3         \* characters of a text whose type is detected

(***************************** text *****************************************)
IdentChars == {"a", "b", "t", "_", "1"}

\* what sqlite accepts as an unquoted identifier in the statements built here
IsIdent(n) == Len(n) > 0 /\ \A i \in 1..Len(n) : n[i] \in IdentChars

Distinct(s) == \A i, j \in 1..Len(s) : i # j => s[i] # s[j]

Range(s) == {s[i] : i \in 1..Len(s)}

IndexOf(s, x) == CHOOSE i \in 1..Len(s) : s[i] = x

\* str.replace(old, new) for one-character old and new
Replace(s, old, new) == [i \in 1..Len(s) |-> IF s[i] = old THEN new ELSE s[i]]

safe_name(text) == Replace(Replace(text, "-", "_"), " ", "_")

(***************************** values ***************************************)
PyInt(t)   == [kind |-> "int",   text |-> t]
PyStr(t)   == [kind |-> "str",   text |-> t]
PyFloat(t) == [kind |-> "float", text |-> t]
PyList     == [kind |-> "list",  text |-> <<"[", "]">>]
Null       == [kind |-> "none",  text |-> <<"N">>]
NaN        == [kind |-> "float", text |-> <<"n", "a", "n">>]

\* the Python types sqlite3 binds as a parameter
Bindable(v) == v.kind \in {"int", "float", "str", "bytes", "none", "bool"}

\* what sqlite3 stores for a bound parameter: a float NaN is stored as NULL
Bind(v) == IF v = NaN THEN Null ELSE v

(***************************** results **************************************)
RTrue    == [tag |-> "True"]
RFalse   == [tag |-> "False"]
RNone    == [tag |-> "None"]
RRows(r) == [tag |-> "rows", v |-> r]
RVal(x)  == [tag |-> "value", v |-> x]
RRow(r)  == [tag |-> "row", v |-> r]
RRaise(e) == [tag |-> "raise", error |-> e]

RBool(b) == IF b THEN RTrue ELSE RFalse

\* Python truthiness of a value execute()/insert() returns
Truthy(r) == r.tag = "True" \/ (r.tag = "rows" /\ Len(r.v) > 0)

(***************************** the engine ***********************************)
NoDb == {}

Fresh == [db |-> NoDb, snap |-> NoDb, intxn |-> FALSE]

\* self.schema = {}
NoSchema == {}

\* what SQRL.__init__ keeps of enable_vectors and embedding_fn (has_fn: is an
\* embedding function given); self._vectors_enabled is set to True
Vectors(enable_vectors, has_fn) ==
  [enable_vectors |-> enable_vectors, vectors_enabled |-> TRUE, embed_function |-> has_fn]

\* the names of the tables of db (sqlite_master)
Tables(db) == {t.name : t \in db}

Table(db, name) == CHOOSE t \in db : t.name = name

Drop(db, name) == {t \in db : t.name # name}

Put(db, name, tbl) == Drop(db, name) \cup {[tbl EXCEPT !.name = name]}

\* the row an INSERT builds: the bound value for a named column, NULL otherwise
NewRow(tbl, cols, vals) ==
  [i \in 1..Len(tbl.cols) |->
     IF tbl.cols[i] \in Range(cols) THEN Bind(vals[IndexOf(cols, tbl.cols[i])]) ELSE Null]

\* does the WHERE clause w hold of row r of table tbl
Holds(w, tbl, r) ==
  IF w.kind = "true" THEN TRUE ELSE r[IndexOf(tbl.cols, w.col)] = w.val

WhereOk(w, tbl) == w.kind = "true" \/ (w.kind = "eq" /\ w.col \in Range(tbl.cols))

\* sqlite prepares and runs one statement against db: [ok, db, rows]
RunStatement(db, s) ==
  LET fail == [ok |-> FALSE, db |-> db, rows |-> <<>>] IN
  CASE s.kind = "create" ->
         IF /\ IsIdent(s.table) /\ s.table \notin Tables(db)
            /\ Len(s.cols) > 0 /\ Distinct(s.cols)
            /\ \A i \in 1..Len(s.cols) : IsIdent(s.cols[i])
         THEN [ok |-> TRUE, rows |-> <<>>,
               db |-> Put(db, s.table, [name |-> s.table, cols |-> s.cols, types |-> s.types,
                                      rows |-> <<>>])]
         ELSE fail
    [] s.kind = "insert" ->
         IF /\ IsIdent(s.table) /\ s.table \in Tables(db)
            /\ Len(s.cols) > 0 /\ Distinct(s.cols)
            /\ \A i \in 1..Len(s.cols) : IsIdent(s.cols[i]) /\ s.cols[i] \in Range(Table(db, s.table).cols)
            /\ Len(s.vals) = Len(s.cols)
            /\ \A i \in 1..Len(s.vals) : Bindable(s.vals[i])
         THEN LET tbl == Table(db, s.table)
                  row == NewRow(tbl, s.cols, s.vals)
              IN [ok |-> TRUE, rows |-> <<row>>,
                  db |-> Put(db, s.table, [tbl EXCEPT !.rows = Append(@, row)])]
         ELSE fail
    [] s.kind = "delete" ->
         IF IsIdent(s.table) /\ s.table \in Tables(db) /\ WhereOk(s.where, Table(db, s.table))
         THEN LET tbl == Table(db, s.table)
                  Gone(r) == Holds(s.where, tbl, r)
                  Kept(r) == ~Holds(s.where, tbl, r)
              IN [ok |-> TRUE, rows |-> SelectSeq(tbl.rows, Gone),
                  db |-> Put(db, s.table, [tbl EXCEPT !.rows = SelectSeq(@, Kept)])]
         ELSE fail
    [] s.kind = "update" ->
         IF /\ IsIdent(s.table) /\ s.table \in Tables(db)
            /\ Len(s.cols) > 0 /\ Len(s.vals) = Len(s.cols)
            /\ \A i \in 1..Len(s.cols) : IsIdent(s.cols[i]) /\ s.cols[i] \in Range(Table(db, s.table).cols)
            /\ \A i \in 1..Len(s.vals) : Bindable(s.vals[i])
            /\ WhereOk(s.where, Table(db, s.table))
         THEN LET tbl == Table(db, s.table)
                  Hit(r) == Holds(s.where, tbl, r)
                  Upd(r) == [i \in 1..Len(r) |->
                               IF Holds(s.where, tbl, r) /\ tbl.cols[i] \in Range(s.cols)
                               THEN Bind(s.vals[IndexOf(s.cols, tbl.cols[i])]) ELSE r[i]]
              IN [ok |-> TRUE, rows |-> SelectSeq(tbl.rows, Hit),
                  db |-> Put(db, s.table,
                             [tbl EXCEPT !.rows = [i \in 1..Len(tbl.rows) |-> Upd(tbl.rows[i])]])]
         ELSE fail
    [] s.kind = "drop" ->
         IF IsIdent(s.table) /\ s.table \in Tables(db)
         THEN [ok |-> TRUE, rows |-> <<>>, db |-> Drop(db, s.table)]
         ELSE fail
    [] s.kind = "vtable" ->
         IF IsIdent(s.table) /\ s.table \notin Tables(db)
         THEN [ok |-> TRUE, rows |-> <<>>,
               db |-> Put(db, s.table, [name |-> s.table, cols |-> s.cols, types |-> s.types,
                                      rows |-> <<>>])]
         ELSE fail
    [] OTHER -> fail

\* statements before which the sqlite3 module opens a transaction by itself
\* when isolation_level is not None
IsDml(s) == s.kind \in {"insert", "delete", "update"}

\* cur.execute("BEGIN TRANSACTION;"): [ok, con]
EngBegin(c, fault) ==
  IF fault \/ c.intxn
  THEN [ok |-> FALSE, con |-> c]
  ELSE [ok |-> TRUE, con |-> [c EXCEPT !.snap = c.db, !.intxn = TRUE]]

\* cur.execute(statement, params): [ok, con, rows]
EngExecute(c, iso, s, fault) ==
  LET c1 == IF iso # "None" /\ IsDml(s) /\ ~c.intxn
            THEN [c EXCEPT !.snap = c.db, !.intxn = TRUE]
            ELSE c
      r == RunStatement(c1.db, s)
  IN IF fault \/ ~r.ok
     THEN [ok |-> FALSE, con |-> c1, rows |-> <<>>]
     ELSE [ok |-> TRUE, con |-> [c1 EXCEPT !.db = r.db], rows |-> r.rows]

\* self.con.commit(): [ok, con]; a failed commit leaves the transaction open
EngCommit(c, fault) ==
  IF fault /\ c.intxn
  THEN [ok |-> FALSE, con |-> c]
  ELSE [ok |-> TRUE, con |-> [c EXCEPT !.snap = NoDb, !.intxn = FALSE]]

\* self.con.rollback()
EngRollback(c) ==
  IF c.intxn THEN [db |-> c.snap, snap |-> NoDb, intxn |-> FALSE] ELSE c

(***************************** StatementExecutor ****************************)
Faults == {"none", "begin", "stmt", "commit"}

\* execute without the rollback of its except branch
execute_NoRollback(c, iso, statement, as_transaction, has_return, fault) ==
  LET b == IF as_transaction THEN EngBegin(c, fault = "begin") ELSE [ok |-> TRUE, con |-> c]
  IN IF ~b.ok THEN [ret |-> RFalse, con |-> b.con, rb |-> FALSE]
     ELSE LET e == EngExecute(b.con, iso, statement, fault = "stmt")
          IN IF ~e.ok THEN [ret |-> RFalse, con |-> e.con, rb |-> FALSE]
             ELSE LET out == IF has_return THEN RRows(e.rows) ELSE RTrue
                      k == EngCommit(e.con, fault = "commit")
                  IN IF ~k.ok THEN [ret |-> RFalse, con |-> k.con, rb |-> FALSE]
                     ELSE [ret |-> out, con |-> k.con, rb |-> FALSE]

\* SQRL.execute: [ret, con, rb]; rb: was con.rollback() called
execute(c, iso, statement, as_transaction, has_return, fault) ==
  LET b == IF as_transaction THEN EngBegin(c, fault = "begin") ELSE [ok |-> TRUE, con |-> c]
  IN IF ~b.ok THEN [ret |-> RFalse, con |-> EngRollback(b.con), rb |-> TRUE]
     ELSE LET e == EngExecute(b.con, iso, statement, fault = "stmt")
          IN IF ~e.ok THEN [ret |-> RFalse, con |-> EngRollback(e.con), rb |-> TRUE]
             ELSE LET out == IF has_return THEN RRows(e.rows) ELSE RTrue
                      k == EngCommit(e.con, fault = "commit")
                  IN IF ~k.ok THEN [ret |-> RFalse, con |-> EngRollback(k.con), rb |-> TRUE]
                     ELSE [ret |-> out, con |-> k.con, rb |-> FALSE]

\* the INSERT statement SQRL.insert builds from utils.process_dict(data)
InsertStmt(table_name, data) ==
  [kind |-> "insert", table |-> table_name, cols |-> data.keys, vals |-> data.vals]

\* the UPDATE statement SQRL.update builds
UpdateStmt(table_name, data, where) ==
  [kind |-> "update", table |-> table_name, cols |-> data.keys, vals |-> data.vals,
   where |-> where]

\* the DELETE statement SQRL.delete builds
DeleteStmt(table_name, where) ==
  [kind |-> "delete", table |-> table_name, where |-> where]

\* SQRL.insert
insert(c, iso, table_name, data, returning, fault) ==
  execute(c, iso, InsertStmt(table_name, data), TRUE, returning, fault)

\* SQRL.update
update(c, iso, table_name, data, where, returning, fault) ==
  execute(c, iso, UpdateStmt(table_name, data, where), TRUE, returning, fault)

\* delete taking an empty where as no condition
delete_AllWhenEmpty(c, iso, table_name, where, returning, fault) ==
  execute(c, iso,
          DeleteStmt(table_name, IF where.kind = "empty" THEN [kind |-> "true"] ELSE where),
          TRUE, returning, fault)

\* SQRL.delete (vacuum=False)
delete(c, iso, table_name, where, returning, fault) ==
  execute(c, iso, DeleteStmt(table_name, where), TRUE, returning, fault)

\* cur.executemany(sql, seq_of_params): the statement once per parameter set,
\* stopping at the first that fails: [ok, con, done]; done: sets that ran
RECURSIVE EngExecutemany(_, _, _, _, _)
EngExecutemany(c, iso, s, params, i) ==
  IF i > Len(params) THEN [ok |-> TRUE, con |-> c, done |-> i - 1]
  ELSE LET e == EngExecute(c, iso, [s EXCEPT !.vals = params[i]], FALSE)
       IN IF ~e.ok THEN [ok |-> FALSE, con |-> e.con, done |-> i - 1]
          ELSE EngExecutemany(e.con, iso, s, params, i + 1)

\* SQRL.executemany: [ret, con, done]
executemany(c, iso, sql, seq_of_params) ==
  LET m == EngExecutemany(c, iso, sql, seq_of_params, 1)
  IN IF ~m.ok THEN [ret |-> RFalse, con |-> EngRollback(m.con), done |-> m.done]
     ELSE LET k == EngCommit(m.con, FALSE)
          IN [ret |-> RTrue, con |-> k.con, done |-> m.done]

\* cur.executescript(sql): commits a pending transaction, then runs the
\* statements one by one with no transaction of its own, stopping at the
\* first that fails: [ok, con, done]
RECURSIVE EngScript(_, _, _)
EngScript(c, stmts, i) ==
  IF i > Len(stmts) THEN [ok |-> TRUE, con |-> c, done |-> i - 1]
  ELSE LET e == EngExecute(c, "None", stmts[i], FALSE)
       IN IF ~e.ok THEN [ok |-> FALSE, con |-> e.con, done |-> i - 1]
          ELSE EngScript(e.con, stmts, i + 1)

EngExecutescript(c, stmts) == EngScript(EngCommit(c, FALSE).con, stmts, 1)

\* SQRL.executescript: [ret, con, done]
executescript(c, sql) ==
  LET m == EngExecutescript(c, sql)
  IN IF ~m.ok THEN [ret |-> RFalse, con |-> EngRollback(m.con), done |-> m.done]
     ELSE LET k == EngCommit(m.con, FALSE)
          IN [ret |-> RTrue, con |-> k.con, done |-> m.done]

(***************************** ResultShaper *********************************)
\* A statement's text is a sequence of pieces; these are the pieces the
\* pattern of SQRL.fetch tells apart
LimitOne == {" LIMIT 1", " limit 1"}

\* pieces that begin with a white-space character or are the semicolon
SpaceOrSemi == {" ", "\n", ";", " OFFSET 0;", " OFFSET 1;", " LIMIT 1", " limit 1"}

\* re.match(r"^.+ LIMIT 1(?=(\s|;)).*", sql, flags=re.IGNORECASE): text
\* without a newline, then " LIMIT 1", then a white-space or a semicolon
MatchesLimit1(sql) ==
  \E k \in 2..Len(sql) :
     /\ sql[k] \in LimitOne
     /\ k + 1 <= Len(sql)
     /\ sql[k + 1] \in SpaceOrSemi
     /\ \A j \in 1..(k - 1) : sql[j] # "\n"

RList(items) == [tag |-> "list", v |-> items]
RDict(keys, row) == [tag |-> "dict", keys |-> keys, v |-> row]

\* dict(row) if return_as_dict else row
FetchedRow(cols, row, return_as_dict) ==
  IF return_as_dict THEN RDict(cols, row) ELSE RRow(row)

\* fetch collapsing one-column rows whether or not return_as_dict is set
fetch_AlwaysCollapse(sql, raw, one, return_as_dict) ==
  IF ~raw.ok THEN RNone
  ELSE LET one1 == one \/ MatchesLimit1(sql)
           rows == [i \in 1..Len(raw.rows) |-> FetchedRow(raw.cols, raw.rows[i], return_as_dict)]
       IN IF Len(rows) = 0 THEN (IF one1 THEN RNone ELSE RList(<<>>))
          ELSE IF one1
          THEN IF Len(rows[1].v) = 1 THEN RVal(rows[1].v[1]) ELSE rows[1]
          ELSE IF Len(rows[1].v) = 1
               THEN RList([i \in 1..Len(rows) |-> RVal(rows[i].v[1])])
               ELSE RList(rows)

\* fetch reporting an engine error in the shape of the cardinality mode
fetch_EmptyOnError(sql, raw, one, return_as_dict) ==
  IF ~raw.ok THEN (IF one \/ MatchesLimit1(sql) THEN RNone ELSE RList(<<>>))
  ELSE LET one1 == one \/ MatchesLimit1(sql)
           rows == [i \in 1..Len(raw.rows) |-> FetchedRow(raw.cols, raw.rows[i], return_as_dict)]
       IN IF Len(rows) = 0 THEN (IF one1 THEN RNone ELSE RList(<<>>))
          ELSE IF one1
          THEN IF Len(rows[1].v) = 1 /\ ~return_as_dict THEN RVal(rows[1].v[1]) ELSE rows[1]
          ELSE IF Len(rows[1].v) = 1 /\ ~return_as_dict
               THEN RList([i \in 1..Len(rows) |-> RVal(rows[i].v[1])])
               ELSE RList(rows)

\* SQRL.fetch, given what self.con.execute(sql, params) does: raw.ok, or an
\* sqlite3.Error; raw.cols and raw.rows, the result's columns and rows
fetch(sql, raw, one, return_as_dict) ==
  IF ~raw.ok THEN RNone
  ELSE LET one1 == one \/ MatchesLimit1(sql)
           rows == [i \in 1..Len(raw.rows) |-> FetchedRow(raw.cols, raw.rows[i], return_as_dict)]
       IN IF Len(rows) = 0 THEN (IF one1 THEN RNone ELSE RList(<<>>))
          ELSE IF one1
          THEN IF Len(rows[1].v) = 1 /\ ~return_as_dict THEN RVal(rows[1].v[1]) ELSE rows[1]
          ELSE IF Len(rows[1].v) = 1 /\ ~return_as_dict
               THEN RList([i \in 1..Len(rows) |-> RVal(rows[i].v[1])])
               ELSE RList(rows)

\* the order of characters in a text comparison
Alphabet == <<" ", "-", ".", "1", "_", "a", "b", "t">>

Rank(ch) == CHOOSE i \in 1..Len(Alphabet) : Alphabet[i] = ch

\* x sorts before y
RECURSIVE Before(_, _)
Before(x, y) ==
  IF Len(x) = 0 THEN Len(y) > 0
  ELSE IF Len(y) = 0 THEN FALSE
  ELSE IF x[1] = y[1] THEN Before(Tail(x), Tail(y))
  ELSE Rank(x[1]) < Rank(y[1])

\* the elements of the set S of texts, in order
Sorted(S) ==
  CHOOSE q \in [1..Cardinality(S) -> S] :
     \A i, j \in 1..Cardinality(S) : i < j => Before(q[i], q[j])

\* SQRL.get_table_names
get_table_names(c) ==
  fetch(<<"SELECT name FROM sqlite_master WHERE type='table' ORDER BY name", ";">>,
        [ok |-> TRUE, cols |-> <<<<"n", "a", "m", "e">>>>,
         rows |-> [i \in 1..Cardinality(Tables(c.db)) |-> <<Sorted(Tables(c.db))[i]>>]],
        FALSE, FALSE)

\* SQRL.table_exists: name in self.get_table_names()
table_exists(c, name) ==
  LET names == get_table_names(c)
  IN names.tag = "list" /\ \E i \in 1..Len(names.v) : names.v[i] = RVal(name)

\* `not x` of a value: None, zero, the empty string
FalsyValue(x) ==
  \/ x.kind = "none"
  \/ (x.kind = "int" /\ x.text = <<"0">>)
  \/ (x.kind \in {"str", "bytes"} /\ Len(x.text) = 0)

\* x[0] of a value: the first character of a string; a number has none
Subscript0(x) ==
  IF x.kind = "str" THEN RVal(PyStr(<<x.text[1]>>)) ELSE RRaise("TypeError")

\* SQRL.fetch_first_value: out = fetch(sql, one=True);
\* return out if not out else out[0]
fetch_first_value(sql, raw) ==
  LET out == fetch(sql, raw, TRUE, FALSE)
  IN IF out.tag = "None" THEN RNone
     ELSE IF out.tag = "row" THEN RVal(out.v[1])
     ELSE IF FalsyValue(out.v) THEN out
     ELSE Subscript0(out.v)

(***************************** QueryBuilder *********************************)
\* an optional argument: None, or Some(x)
None == <<>>
Some(x) == <<x>>

\* `not x` of an optional text: None or the empty string
NotText(x) == x = None \/ x[1] = ""

\* ",".join(columns)
RECURSIVE Join(_)
Join(columns) ==
  IF Len(columns) = 0 THEN <<>>
  ELSE IF Len(columns) = 1 THEN <<columns[1]>>
  ELSE <<columns[1], ",">> \o Join(Tail(columns))

\* f" LIMIT {limit}" and f" OFFSET {offset};"
LimitText(limit) ==
  CASE limit = -1 -> " LIMIT -1" [] limit = 1 -> " LIMIT 1" [] OTHER -> " LIMIT 2"

OffsetText(offset) == IF offset = 0 THEN " OFFSET 0;" ELSE " OFFSET 1;"

\* select with the HAVING chunk joined before the GROUP BY chunk
select_stmt_HavingFirst(q) ==
  LET col_list == IF q.columns # None /\ Len(q.columns[1]) > 0 THEN Join(q.columns[1]) ELSE <<"*">>
      core == <<"SELECT ">> \o (IF q.distinct THEN <<"DISTINCT ">> ELSE <<>>) \o col_list
                \o <<" FROM ", q.table_name>>
      where_chunk == IF NotText(q.where) THEN <<>> ELSE <<" WHERE ", q.where[1]>>
      group_by_chunk == IF NotText(q.group_by) THEN <<>> ELSE <<" GROUP BY ", q.group_by[1]>>
      having_chunk == IF NotText(q.having) THEN <<>> ELSE <<" HAVING ", q.having[1]>>
      order_by_chunk == IF NotText(q.order_by) THEN <<>>
                        ELSE <<" ORDER BY ", q.order_by[1], IF q.asc THEN " ASC" ELSE " DESC">>
      limit_offset_chunk == <<LimitText(q.limit), OffsetText(q.offset)>>
  IN core \o where_chunk \o having_chunk \o group_by_chunk \o order_by_chunk \o limit_offset_chunk

\* the statement SQRL.select builds from its arguments q
select_stmt(q) ==
  LET col_list == IF q.columns # None /\ Len(q.columns[1]) > 0 THEN Join(q.columns[1]) ELSE <<"*">>
      core == <<"SELECT ">> \o (IF q.distinct THEN <<"DISTINCT ">> ELSE <<>>) \o col_list
                \o <<" FROM ", q.table_name>>
      where_chunk == IF NotText(q.where) THEN <<>> ELSE <<" WHERE ", q.where[1]>>
      group_by_chunk == IF NotText(q.group_by) THEN <<>> ELSE <<" GROUP BY ", q.group_by[1]>>
      having_chunk == IF NotText(q.having) THEN <<>> ELSE <<" HAVING ", q.having[1]>>
      order_by_chunk == IF NotText(q.order_by) THEN <<>>
                        ELSE <<" ORDER BY ", q.order_by[1], IF q.asc THEN " ASC" ELSE " DESC">>
      limit_offset_chunk == <<LimitText(q.limit), OffsetText(q.offset)>>
  IN core \o where_chunk \o group_by_chunk \o having_chunk \o order_by_chunk \o limit_offset_chunk

\* SQRL.select, given what the engine does with the statement: the fetch
\* argument q.fetch is not read
select(q, raw) == fetch(select_stmt(q), raw, q.limit = 1, q.return_as_dict)

(***************************** SchemaCache **********************************)
\* SQRL.get_column_names: [col[1] for col in fetch("PRAGMA table_info(<name>);")]
get_column_names(c, table_name) ==
  IF table_name \in Tables(c.db) THEN Table(c.db, table_name).cols ELSE <<>>

\* the names get_table_names returns, as build_schema iterates over them
TableList(c) ==
  LET tables == get_table_names(c)
  IN [i \in 1..Len(tables.v) |-> tables.v[i].v]

\* build_schema without self.schema.clear()
build_schema_NoClear(c, cache) ==
  {e \in cache : e.name \notin Range(TableList(c))}
    \cup {[name |-> TableList(c)[i], cols |-> get_column_names(c, TableList(c)[i])] :
            i \in 1..Len(TableList(c))}

\* SQRL.build_schema: the value of self.schema after it; cache: before it
build_schema(c, cache) ==
  {[name |-> TableList(c)[i], cols |-> get_column_names(c, TableList(c)[i])] :
     i \in 1..Len(TableList(c))}

\* self.schema after column_exists_in_table's "if len(self.schema) == 0"
looked_up(c, cache) == IF cache = NoSchema THEN build_schema(c, cache) ELSE cache

\* SQRL.column_exists_in_table: [ret, schema]
column_exists_in_table(c, cache, table_name, column) ==
  [ret |-> RBool(\E e \in looked_up(c, cache) :
                    e.name = table_name /\ column \in Range(e.cols)),
   schema |-> looked_up(c, cache)]

(***************************** vectors **************************************)
\* the columns of the vec0 table create_embedding_db declares
VecCols ==
  <<<<"i", "d">>, <<"c", "o", "n", "t", "e", "n", "t">>,
    <<"e", "m", "b", "e", "d", "d", "i", "n", "g">>>>

\* the CREATE VIRTUAL TABLE ... USING vec0 statement of create_embedding_db
VTableStmt(table_name, dim) ==
  [kind |-> "vtable", table |-> table_name, cols |-> VecCols,
   types |-> <<"integer", "text", "float">>, dim |-> dim]

\* SQRL.add_embedding: [ret, con, sent]; sent: did a statement reach the
\* engine.  sqrl.utils defines no serialize, so evaluating utils.serialize
\* raises AttributeError before the embedding function is called
add_embedding(c, iso, v, table_name, text) ==
  IF ~v.vectors_enabled
  THEN [ret |-> RRaise("RuntimeError"), con |-> c, sent |-> FALSE]
  ELSE [ret |-> RRaise("AttributeError"), con |-> c, sent |-> FALSE]

\* SQRL.create_embedding_db, once execute returned e
vtable_result(e) == [ret |-> e.ret, con |-> e.con, sent |-> TRUE]

\* SQRL.create_embedding_db: [ret, con, sent]; fault: does the engine reject
\* the statement, as it does when the vec0 module was not loaded
create_embedding_db(c, iso, v, table_name, dim, fault) ==
  IF ~v.vectors_enabled
  THEN [ret |-> RRaise("RuntimeError"), con |-> c, sent |-> FALSE]
  ELSE vtable_result(execute(c, iso, VTableStmt(table_name, dim), FALSE, FALSE, fault))

\* SQRL.k_nearest_embeddings: [ret, con, sent]
k_nearest_embeddings(c, iso, v, table_name, query, k) ==
  IF ~v.vectors_enabled
  THEN [ret |-> RRaise("RuntimeError"), con |-> c, sent |-> FALSE]
  ELSE [ret |-> RRaise("AttributeError"), con |-> c, sent |-> FALSE]

(***************************** TypeInferencer *******************************)
Digits == {"0", "1", "2"}

AllDigits(t) == Len(t) > 0 /\ \A i \in 1..Len(t) : t[i] \in Digits

\* where "$" of a pattern matches in t: at its end, and before a newline
\* that is its last character
Dollar(t) ==
  {t} \cup (IF Len(t) > 0 /\ t[Len(t)] = "\n" THEN {SubSeq(t, 1, Len(t) - 1)} ELSE {})

\* utils.is_int: re.match(r"^[0-9]+$", str(x))
is_int(x) == \E p \in Dollar(x.text) : AllDigits(p)

\* utils.is_real: re.match(r"^[0-9]+\.[0-9]+$", str(x))
is_real(x) ==
  \E p \in Dollar(x.text) :
     \E d \in 1..Len(p) :
        /\ p[d] = "."
        /\ AllDigits(SubSeq(p, 1, d - 1))
        /\ AllDigits(SubSeq(p, d + 1, Len(p)))

\* utils.detect_type_csv
detect_type_csv(data) ==
  IF is_int(data) THEN "integer"
  ELSE IF is_real(data) THEN "real"
  ELSE IF data.kind = "bytes" THEN "blob"
  ELSE "text"

\* utils.detect_type_json: isinstance(data, int) holds of a bool too
detect_type_json(data) ==
  IF data.kind \in {"int", "bool"} THEN "integer"
  ELSE IF data.kind = "float" THEN "real"
  ELSE IF data.kind = "bytes" THEN "blob"
  ELSE "text"

(***************************** BulkLoader ***********************************)
HasNa(row) == \E i \in 1..Len(row) : row[i] = NaN

NoNa(row) == ~HasNa(row)

CreateStmt(name, cols, types) ==
  [kind |-> "create", table |-> name, cols |-> cols, types |-> types]

\* the clean-up without its DROP TABLE
df_cleanup_NoDrop(c, iso, table_name) ==
  execute(c, iso, DeleteStmt(table_name, [kind |-> "true"]), FALSE, FALSE, "none")

\* the clean-up of a strict SQRL.from_df: DELETE FROM and DROP TABLE
df_cleanup(c, iso, table_name) ==
  execute(execute(c, iso, DeleteStmt(table_name, [kind |-> "true"]), FALSE, FALSE, "none").con,
          iso, [kind |-> "drop", table |-> table_name], FALSE, FALSE, "none")

\* the loop of SQRL.from_df over the rows: [ret, con, create, outs]; outs: the
\* outcome of each row's insert so far.  df_row is the loop's body once
\* row i's insert returned r
RECURSIVE df_rows(_, _, _, _, _, _, _, _)
RECURSIVE df_row(_, _, _, _, _, _, _, _)
df_row(r, iso, columns, rows, table_name, strict, i, outs) ==
  IF ~Truthy(r.ret) /\ strict
  THEN [ret |-> RFalse, con |-> df_cleanup(r.con, iso, table_name).con,
        create |-> "ok", outs |-> Append(outs, FALSE)]
  ELSE df_rows(r.con, iso, columns, rows, table_name, strict, i + 1,
               Append(outs, Truthy(r.ret)))

df_rows(c, iso, columns, rows, table_name, strict, i, outs) ==
  IF i > Len(rows) THEN [ret |-> RTrue, con |-> c, create |-> "ok", outs |-> outs]
  ELSE df_row(insert(c, iso, table_name, [keys |-> columns, vals |-> rows[i]], FALSE, "none"),
              iso, columns, rows, table_name, strict, i, outs)

\* the column types SQRL.from_df takes from the first row without a NaN
df_types(dataframe) ==
  [i \in 1..Len(dataframe.columns) |->
     detect_type_json(SelectSeq(dataframe.rows, NoNa)[1][i])]

\* SQRL.from_df once CREATE TABLE returned t
df_created(t, iso, dataframe, table_name, strict) ==
  IF ~Truthy(t.ret)
  THEN [ret |-> RFalse, con |-> t.con, create |-> "failed", outs |-> <<>>]
  ELSE df_rows(t.con, iso, dataframe.columns, dataframe.rows, table_name, strict, 1, <<>>)

\* SQRL.from_df: [ret, con, create, outs]; dataframe.dropna() with no row
\* left makes tmp[0] raise
from_df(c, iso, dataframe, table_name, strict) ==
  IF Len(SelectSeq(dataframe.rows, NoNa)) = 0
  THEN [ret |-> RRaise("IndexError"), con |-> c, create |-> "skipped", outs |-> <<>>]
  ELSE df_created(execute(c, iso, CreateStmt(table_name, dataframe.columns, df_types(dataframe)),
                          FALSE, FALSE, "none"),
                  iso, dataframe, table_name, strict)

\* what SQRL.create_table_from_csv returns from executemany's m; outs: the
\* outcome of each parameter set that was run
csv_result(m) ==
  [ret |-> m.ret, con |-> m.con, create |-> "ok",
   outs |-> [i \in 1..m.done |-> TRUE] \o (IF m.ret = RFalse THEN <<FALSE>> ELSE <<>>)]

\* SQRL.create_table_from_csv once CREATE TABLE returned t
csv_created(t, iso, file, name) ==
  IF ~Truthy(t.ret) THEN [ret |-> RFalse, con |-> t.con, create |-> "failed", outs |-> <<>>]
  ELSE csv_result(executemany(t.con, iso,
                              [kind |-> "insert", table |-> name, cols |-> file.headers,
                               vals |-> <<>>],
                              file.rows))

\* the columns SQRL.create_table_from_csv declares, from the first row
csv_cols(file) == [i \in 1..Len(file.rows[1]) |-> Replace(file.headers[i], " ", "_")]

csv_types(file) == [i \in 1..Len(file.rows[1]) |-> detect_type_csv(file.rows[1][i])]

\* SQRL.create_table_from_csv, after utils.read_csv gave file = (headers, rows):
\* [ret, con, create, outs]
create_table_from_csv(c, iso, file, name) ==
  IF Len(file.rows) = 0
  THEN [ret |-> RFalse, con |-> c, create |-> "skipped", outs |-> <<>>]
  ELSE csv_created(execute(c, iso, CreateStmt(safe_name(name), csv_cols(file), csv_types(file)),
                           FALSE, FALSE, "none"),
                   iso, file, safe_name(name))

\* the loop of SQRL.create_table_from_json: success = success and insert(...);
\* json_row is the loop's body once item i's insert returned r
RECURSIVE json_rows(_, _, _, _, _, _, _, _)
RECURSIVE json_row(_, _, _, _, _, _, _)
json_row(r, iso, keys, data, name, i, outs) ==
  json_rows(r.con, iso, keys, data, name, Truthy(r.ret), i + 1, Append(outs, Truthy(r.ret)))

json_rows(c, iso, keys, data, name, success, i, outs) ==
  IF i > Len(data)
  THEN [ret |-> RBool(success), con |-> c, create |-> "ok", outs |-> outs]
  ELSE IF ~success THEN json_rows(c, iso, keys, data, name, success, i + 1, outs)
  ELSE json_row(insert(c, iso, name, [keys |-> keys, vals |-> data[i]], FALSE, "none"),
                iso, keys, data, name, i, outs)

\* create_table_from_json going on to the inserts whatever CREATE TABLE returned
json_created_NoAbort(t, iso, data, name) ==
  [json_rows(t.con, iso, data.keys, data.rows, name, TRUE, 1, <<>>)
     EXCEPT !.create = IF Truthy(t.ret) THEN "ok" ELSE "failed"]

\* SQRL.create_table_from_json once CREATE TABLE returned t
json_created(t, iso, data, name) ==
  IF ~Truthy(t.ret)
  THEN [ret |-> RFalse, con |-> t.con, create |-> "failed", outs |-> <<>>]
  ELSE json_rows(t.con, iso, data.keys, data.rows, name, TRUE, 1, <<>>)

\* the column types SQRL.create_table_from_json takes from data[0]
json_types(data) == [i \in 1..Len(data.keys) |-> detect_type_json(data.rows[1][i])]

\* SQRL.create_table_from_json, after json.load gave data: [ret, con, create, outs]
create_table_from_json(c, iso, data, name) ==
  IF (data.is_list /\ Len(data.rows) = 0) \/ (~data.is_list /\ Len(data.keys) = 0)
  THEN [ret |-> RNone, con |-> c, create |-> "skipped", outs |-> <<>>]
  ELSE IF ~data.is_list
  THEN [ret |-> RFalse, con |-> c, create |-> "skipped", outs |-> <<>>]
  ELSE json_created(execute(c, iso, CreateStmt(name, data.keys, json_types(data)),
                            FALSE, FALSE, "none"),
                    iso, data, name)

(***************************** inputs ***************************************)
A == <<"a">>
B == <<"b">>
BS == <<"b", " ", "1">>

T == <<"t">>

\* a name of an existing or creatable table, and one sqlite rejects
TableNames == {T, <<"t", ".">>}

Headers == {<<A>>, <<A, B>>, <<A, BS>>, <<A, A>>}

\* the headers of bulk-load inputs: valid, with a space in a name, repeated
BulkHeaders == {<<A>>, <<A, BS>>, <<A, A>>}

One == PyInt(<<"1">>)

\* a row of len cells, all v
RowOf(len, v) == [i \in 1..len |-> v]

\* the sequences of at most MaxRows values of V
SeqsOf(V) == UNION {[1..n -> V] : n \in 0..MaxRows}

\* the rows of an input with header h whose i-th row has all cells vs[i]
RowsOf(h, vs) == [i \in 1..Len(vs) |-> RowOf(Len(h), vs[i])]

Wheres == {[kind |-> "true"], [kind |-> "eq", col |-> A, val |-> One], [kind |-> "empty"]}

DdlStatements ==
  {CreateStmt(n, h, RowOf(Len(h), "integer")) : n \in TableNames, h \in Headers}
    \cup {[kind |-> "drop", table |-> n] : n \in TableNames}

\* does table n have room for k more rows (the bound on a table's size)
Room(db, n, k) ==
  IF n \in Tables(db) THEN Len(Table(db, n).rows) + k <= MaxTableRows ELSE TRUE

Idle == [op |-> "init", ret |-> RNone, obs |-> [x |-> 0]]

Threads == {1, 2}

(***************************** single-threaded use **************************)
Init ==
  /\ con = Fresh
  /\ isolation_level \in {"None", "DEFERRED"}
  /\ last = Idle
  /\ pc = [t \in Threads |-> "idle"]
  /\ cur = [t \in Threads |-> Idle]
  /\ schema = NoSchema
  /\ vectors = Vectors(TRUE, FALSE)

\* what a call of execute leaves behind
Call(op, r, as_transaction, fault, statement) ==
  /\ con' = r.con
  /\ last' = [op |-> op, ret |-> r.ret,
              obs |-> [as_transaction |-> as_transaction, fault |-> fault, rb |-> r.rb,
                       kind |-> statement.kind,
                       where |-> IF statement.kind = "delete" THEN statement.where.kind
                                 ELSE "none",
                       sent |-> fault # "begin",
                       runnable |-> RunStatement(con.db, statement).ok]]
  /\ UNCHANGED <<isolation_level, schema, vectors, pc, cur>>

Execute ==
  \E s \in DdlStatements, as_transaction \in BOOLEAN, fault \in Faults :
     /\ IF fault = "begin" THEN as_transaction ELSE TRUE
     /\ Call("execute", execute(con, isolation_level, s, as_transaction, FALSE, fault),
             as_transaction, fault, s)

Insert ==
  \E n \in TableNames, h \in Headers, v \in {One, PyList},
     returning \in BOOLEAN, fault \in Faults :
     /\ Room(con.db, n, 1)
     /\ Call("insert",
             insert(con, isolation_level, n, [keys |-> h, vals |-> RowOf(Len(h), v)],
                    returning, fault),
             TRUE, fault, InsertStmt(n, [keys |-> h, vals |-> RowOf(Len(h), v)]))

Update ==
  \E n \in TableNames, h \in Headers, v \in {One, PyList}, w \in Wheres,
     returning \in BOOLEAN, fault \in Faults :
     /\ n \in TableNames
     /\ Call("update",
             update(con, isolation_level, n, [keys |-> h, vals |-> RowOf(Len(h), v)], w,
                    returning, fault),
             TRUE, fault, UpdateStmt(n, [keys |-> h, vals |-> RowOf(Len(h), v)], w))

\* what a call leaves behind that raised before it reached execute
Raised(op, e, where) ==
  /\ last' = [op |-> op, ret |-> RRaise(e),
              obs |-> [as_transaction |-> FALSE, fault |-> "none", rb |-> FALSE,
                       kind |-> "none", where |-> where, sent |-> FALSE,
                       runnable |-> FALSE]]
  /\ UNCHANGED <<con, isolation_level, schema, vectors, pc, cur>>

\* delete(table_name) with where left out, which Python rejects with a
\* TypeError before the body runs, or delete(table_name, where)
Delete ==
  \/ \E n \in TableNames : n \in TableNames /\ Raised("delete", "TypeError", "omitted")
  \/ \E n \in TableNames, w \in Wheres, returning \in BOOLEAN, fault \in Faults :
        /\ n \in TableNames
        /\ Call("delete", delete(con, isolation_level, n, w, returning, fault),
                TRUE, fault, DeleteStmt(n, w))

\* what a call of executemany or executescript leaves behind
BatchCall(op, r, n) ==
  /\ con' = r.con
  /\ last' = [op |-> op, ret |-> r.ret, obs |-> [n |-> n, done |-> r.done]]
  /\ UNCHANGED <<isolation_level, schema, vectors, pc, cur>>

Executemany ==
  \E n \in TableNames, h \in Headers, vs \in SeqsOf({One, PyList}) :
     /\ Room(con.db, n, Len(vs))
     /\ BatchCall("executemany",
                  executemany(con, isolation_level,
                              [kind |-> "insert", table |-> n, cols |-> h, vals |-> <<>>],
                              RowsOf(h, vs)),
                  Len(vs))

Executescript ==
  \E n \in TableNames, h \in Headers, vs \in SeqsOf({One, PyList}) :
     /\ Room(con.db, n, Len(vs))
     /\ BatchCall("executescript",
                  executescript(con, [i \in 1..Len(vs) |->
                     InsertStmt(n, [keys |-> h, vals |-> RowOf(Len(h), vs[i])])]),
                  Len(vs))

\* what a call of a bulk loader leaves behind; name: the table's name,
\* header and first: the input's header and the cells of its first row
BulkCall(op, r, name, strict, n, header, first) ==
  /\ con' = r.con
  /\ last' = [op |-> op, ret |-> r.ret,
              obs |-> [name |-> name, strict |-> strict, create |-> r.create,
                       outs |-> r.outs,
                       n |-> n, header |-> header, first |-> first,
                       existed |-> name \in Tables(con.db)]]
  /\ UNCHANGED <<isolation_level, schema, vectors, pc, cur>>

First(vs) == IF Len(vs) > 0 THEN vs[1] ELSE Null

FromDf ==
  \E n \in TableNames, h \in BulkHeaders \ {<<A, A>>}, vs \in SeqsOf({One, PyList, NaN}),
     strict \in BOOLEAN :
     /\ Len(vs) <= MaxRows
     /\ BulkCall("from_df",
                 from_df(con, isolation_level, [columns |-> h, rows |-> RowsOf(h, vs)], n, strict),
                 n, strict, Len(vs), <<>>, Null)

CreateTableFromCsv ==
  \E n \in TableNames, h \in BulkHeaders, vs \in SeqsOf({PyStr(<<"1">>), PyStr(<<"a">>)}) :
     /\ Len(vs) <= MaxRows
     /\ BulkCall("create_table_from_csv",
                 create_table_from_csv(con, isolation_level,
                                       [headers |-> h, rows |-> RowsOf(h, vs)], n),
                 safe_name(n), FALSE, Len(vs), h, First(vs))

CreateTableFromJson ==
  \E n \in TableNames, h \in BulkHeaders \ {<<A, A>>}, vs \in SeqsOf({One, PyList}),
     is_list \in BOOLEAN :
     /\ IF is_list THEN TRUE ELSE Len(vs) = 0
     /\ BulkCall("create_table_from_json",
                 create_table_from_json(con, isolation_level,
                    [is_list |-> is_list, keys |-> h, rows |-> RowsOf(h, vs)], n),
                 n, FALSE, Len(vs), <<>>, Null)

Next ==
  \/ Execute
  \/ Insert
  \/ Update
  \/ Delete
  \/ Executemany
  \/ Executescript

Spec == Init /\ [][Next]_vars

\* execute("DROP TABLE <name>;")
DropTable ==
  \E n \in TableNames :
     /\ n \in TableNames
     /\ Call("execute",
             execute(con, isolation_level, [kind |-> "drop", table |-> n], FALSE, FALSE, "none"),
             FALSE, "none", [kind |-> "drop", table |-> n])

(***************************** reading **************************************)
\* statement texts: plain, ending in LIMIT 1 with or without a terminator,
\* LIMIT 1 OFFSET 0 as SQRL.select writes it, LIMIT 10, and over two lines
SqlTexts ==
  {<<"SELECT a FROM t">>,
   <<"SELECT a FROM t", ";">>,
   <<"SELECT a FROM t", " LIMIT 1">>,
   <<"SELECT a FROM t", " LIMIT 1", ";">>,
   <<"SELECT a FROM t", " limit 1", ";">>,
   <<"SELECT a FROM t", " LIMIT 1", " OFFSET 0;">>,
   <<"SELECT a FROM t", " LIMIT 1", "0", ";">>,
   <<"SELECT a", "\n", "FROM t", " LIMIT 1", ";">>}

\* does the statement ask the engine for at most one row
LimitsToOne(sql) ==
  \E k \in 1..Len(sql) :
     sql[k] \in LimitOne /\ (IF k < Len(sql) THEN sql[k + 1] # "0" ELSE TRUE)

Cells == {One, PyInt(<<"2">>)}

\* the raw row sets of at most MaxRows rows of n columns
RowSets(n) == UNION {[1..k -> [1..n -> Cells]] : k \in 0..MaxRows}

Fetch ==
  \E sql \in SqlTexts, cols \in {<<A>>, <<A, B>>}, one \in BOOLEAN,
     return_as_dict \in BOOLEAN, ok \in BOOLEAN :
     \E rows \in RowSets(Len(cols)) :
        /\ IF LimitsToOne(sql) THEN Len(rows) <= 1 ELSE TRUE
        /\ IF ok THEN TRUE ELSE rows = <<>>
        /\ last' = [op |-> "fetch",
                    ret |-> fetch(sql, [ok |-> ok, cols |-> cols, rows |-> rows],
                                  one, return_as_dict),
                    obs |-> [sql |-> sql, cols |-> cols, rows |-> rows, one |-> one,
                             return_as_dict |-> return_as_dict, ok |-> ok]]
        /\ UNCHANGED <<con, isolation_level, schema, vectors, pc, cur>>

NextFetch == Fetch

SpecFetch == Init /\ [][NextFetch]_vars

(***************************** select ***************************************)
OptTexts(x) == {None, Some(""), Some(x)}

\* the arguments of a call of select
SelectArgs ==
  [table_name : {"t"},
   columns : {None, Some(<<>>), Some(<<"a", "b">>)},
   distinct : BOOLEAN,
   where : OptTexts("a = 1"),
   order_by : {None, Some("a")},
   asc : BOOLEAN,
   group_by : {None, Some("a")},
   having : {None, Some("a > 1")},
   limit : {-1, 1, 2},
   offset : {0, 1},
   fetch : {None, Some(1)},
   return_as_dict : BOOLEAN]

\* a call of select is about to run
InitSelect ==
  /\ con = Fresh
  /\ isolation_level = "None"
  /\ last = Idle
  /\ schema = NoSchema
  /\ vectors = Vectors(TRUE, FALSE)
  /\ \E q \in SelectArgs, rows \in RowSets(1), ok \in BOOLEAN :
        /\ q.limit < 0 \/ Len(rows) <= q.limit
        /\ ok \/ rows = <<>>
        /\ pc = [t \in Threads |-> IF t = 1 THEN "select" ELSE "idle"]
        /\ cur = [t \in Threads |->
                    IF t = 1
                    THEN [op |-> "select", ret |-> RNone,
                          obs |-> [q |-> q, raw |-> [ok |-> ok, cols |-> <<A>>, rows |-> rows]]]
                    ELSE Idle]

Select ==
  /\ pc[1] = "select"
  /\ last' = [op |-> "select", ret |-> select(cur[1].obs.q, cur[1].obs.raw),
              obs |-> [q |-> cur[1].obs.q, raw |-> cur[1].obs.raw,
                       stmt |-> select_stmt(cur[1].obs.q)]]
  /\ pc' = [pc EXCEPT ![1] = "idle"]
  /\ UNCHANGED <<con, isolation_level, schema, vectors, cur>>

NextSelect == Select

SpecSelect == InitSelect /\ [][NextSelect]_vars

(***************************** type detection *******************************)
\* the characters of the texts: digits, a dot, a sign, an exponent mark, a
\* newline and a letter
TextChars == {"1", "2", ".", "-", "e", "\n", "a"}

TextsOf(n) == UNION {[1..k -> TextChars] : k \in 0..n}

\* Python values with their str(): strings and bytes of at most MaxLen
\* characters, whole and fractional numbers, booleans, None, a list, a dict
PyValues ==
  {PyStr(t) : t \in TextsOf(MaxLen)}
    \cup {[kind |-> "bytes", text |-> <<"b", "'">> \o t \o <<"'">>] : t \in TextsOf(1)}
    \cup {PyInt(t) : t \in {<<"1">>, <<"1", "2">>, <<"-", "1">>}}
    \cup {PyFloat(t) : t \in {<<"1", ".", "0">>, <<"1", ".", "2">>, <<"-", "1", ".", "2">>,
                              <<"1", "e", "+", "2", "0">>}}
    \cup {[kind |-> "bool", text |-> <<"T", "r", "u", "e">>],
          [kind |-> "bool", text |-> <<"F", "a", "l", "s", "e">>],
          [kind |-> "none", text |-> <<"N", "o", "n", "e">>],
          PyList,
          [kind |-> "dict", text |-> <<"{", "}">>]}

\* a value is about to be classified
InitTypes ==
  /\ con = Fresh
  /\ isolation_level = "None"
  /\ last = Idle
  /\ schema = NoSchema
  /\ vectors = Vectors(TRUE, FALSE)
  /\ pc = [t \in Threads |-> IF t = 1 THEN "detect" ELSE "idle"]
  /\ \E data \in PyValues :
        cur = [t \in Threads |->
                 IF t = 1 THEN [op |-> "detect", ret |-> RNone, obs |-> [data |-> data]]
                 ELSE Idle]

\* what a classification of cur[1]'s value leaves behind
Detected(op, type) ==
  /\ pc[1] = "detect"
  /\ last' = [op |-> op, ret |-> RVal(type), obs |-> cur[1].obs]
  /\ pc' = [pc EXCEPT ![1] = "idle"]
  /\ UNCHANGED <<con, isolation_level, schema, vectors, cur>>

DetectTypeCsv ==
  /\ cur[1].op = "detect"
  /\ Detected("detect_type_csv", detect_type_csv(cur[1].obs.data))

DetectTypeJson ==
  /\ cur[1].op = "detect"
  /\ Detected("detect_type_json", detect_type_json(cur[1].obs.data))

NextTypes == DetectTypeCsv \/ DetectTypeJson

SpecTypes == InitTypes /\ [][NextTypes]_vars

(***************************** vector calls *********************************)
\* an instance constructed with either value of enable_vectors, with or
\* without an embedding function
InitVectors ==
  /\ con = Fresh
  /\ isolation_level \in {"None", "DEFERRED"}
  /\ last = Idle
  /\ pc = [t \in Threads |-> "idle"]
  /\ cur = [t \in Threads |-> Idle]
  /\ schema = NoSchema
  /\ vectors \in {Vectors(e, f) : e \in BOOLEAN, f \in BOOLEAN}

\* what a call of a vector operation leaves behind
VectorCall(op, r, table_name, arg) ==
  /\ con' = r.con
  /\ last' = [op |-> op, ret |-> r.ret,
              obs |-> [sent |-> r.sent, table_name |-> table_name, arg |-> arg,
                       same |-> r.con.db = con.db]]
  /\ UNCHANGED <<isolation_level, schema, vectors, pc, cur>>

AddEmbedding ==
  \E n \in TableNames, text \in {"a", "b"} :
     /\ n \in TableNames
     /\ VectorCall("add_embedding", add_embedding(con, isolation_level, vectors, n, text),
                   n, text)

\* the engine knows vec0 only if __init__ loaded sqlite_vec
CreateEmbeddingDb ==
  \E n \in TableNames, dim \in {"1", "2"}, fault \in {"none", "stmt"} :
     /\ IF vectors.enable_vectors THEN TRUE ELSE fault = "stmt"
     /\ VectorCall("create_embedding_db",
                   create_embedding_db(con, isolation_level, vectors, n, dim, fault),
                   n, dim)

KNearestEmbeddings ==
  \E n \in TableNames, query \in {"a", "b"} :
     /\ n \in TableNames
     /\ VectorCall("k_nearest_embeddings",
                   k_nearest_embeddings(con, isolation_level, vectors, n, query, 1),
                   n, query)

NextVectors ==
  \/ AddEmbedding
  \/ CreateEmbeddingDb
  \/ KNearestEmbeddings

SpecVectors == InitVectors /\ [][NextVectors]_vars

(***************************** schema cache *********************************)
BuildSchema ==
  /\ schema' = build_schema(con, schema)
  /\ last' = [op |-> "build_schema", ret |-> RNone, obs |-> [was |-> schema = NoSchema]]
  /\ UNCHANGED <<con, isolation_level, vectors, pc, cur>>

ColumnExistsInTable ==
  \E n \in TableNames, column \in {A, B} :
     /\ schema' = column_exists_in_table(con, schema, n, column).schema
     /\ last' = [op |-> "column_exists_in_table",
                 ret |-> column_exists_in_table(con, schema, n, column).ret,
                 obs |-> [was |-> schema = NoSchema]]
     /\ UNCHANGED <<con, isolation_level, vectors, pc, cur>>

NextSchema ==
  \/ Execute
  \/ Insert
  \/ Update
  \/ Delete
  \/ CreateTableFromJson
  \/ BuildSchema
  \/ ColumnExistsInTable

SpecSchema == Init /\ [][NextSchema]_vars

(***************************** first value **********************************)
\* the values of the rows: a number, zero, a string of two characters
FirstCells == {One, PyInt(<<"0">>), PyStr(<<"a", "b">>)}

\* the raw row sets of at most MaxRows rows of n columns of FirstCells
FirstRowSets(n) == UNION {[1..k -> [1..n -> FirstCells]] : k \in 0..MaxRows}

\* a call of fetch_first_value is about to run
InitFirstValue ==
  /\ con = Fresh
  /\ isolation_level = "None"
  /\ last = Idle
  /\ schema = NoSchema
  /\ vectors = Vectors(TRUE, FALSE)
  /\ pc = [t \in Threads |-> IF t = 1 THEN "fetch_first_value" ELSE "idle"]
  /\ \E sql \in {<<"SELECT a FROM t", ";">>, <<"SELECT a FROM t", " LIMIT 1", ";">>},
        cols \in {<<A>>, <<A, B>>}, ok \in BOOLEAN :
        \E rows \in FirstRowSets(Len(cols)) :
           /\ LimitsToOne(sql) => Len(rows) <= 1
           /\ ok \/ rows = <<>>
           /\ cur = [t \in Threads |->
                       IF t = 1
                       THEN [op |-> "fetch_first_value", ret |-> RNone,
                             obs |-> [sql |-> sql,
                                      raw |-> [ok |-> ok, cols |-> cols, rows |-> rows]]]
                       ELSE Idle]

FetchFirstValue ==
  /\ pc[1] = "fetch_first_value"
  /\ last' = [op |-> "fetch_first_value",
              ret |-> fetch_first_value(cur[1].obs.sql, cur[1].obs.raw),
              obs |-> cur[1].obs]
  /\ pc' = [pc EXCEPT ![1] = "idle"]
  /\ UNCHANGED <<con, isolation_level, schema, vectors, cur>>

NextFirstValue == FetchFirstValue

SpecFirstValue == InitFirstValue /\ [][NextFirstValue]_vars

(***************************** bulk loading *********************************)
NextBulk ==
  \/ DropTable
  \/ FromDf
  \/ CreateTableFromCsv
  \/ CreateTableFromJson

SpecBulk == Init /\ [][NextBulk]_vars

(***************************** two threads, one instance ********************)
\* SQRL(check_same_thread=False) used by two threads.  execute holds no lock,
\* so a thread can be pre-empted between any two of its calls on self.con;
\* each of those calls is one step.  Thread t inserts Val(t), or a value
\* sqlite cannot bind, into table T.
Val(t) == PyInt(<<IF t = 1 THEN "1" ELSE "2">>)

\* the rows of table T of db that hold v
Count(db, v) ==
  LET Is(r) == r = <<v>>
  IN IF T \in Tables(db) THEN Len(SelectSeq(Table(db, T).rows, Is)) ELSE 0

Busy == {t \in Threads : pc[t] # "idle"}

\* execute("CREATE TABLE t (a integer);") while no thread is in a call
CreateTable ==
  /\ Busy = {}
  /\ Call("execute",
          execute(con, isolation_level, CreateStmt(T, <<A>>, <<"integer">>), FALSE, FALSE, "none"),
          FALSE, "none", CreateStmt(T, <<A>>, <<"integer">>))

\* what a step of thread t leaves behind when the call goes on at `to`
Step(t, c, to) ==
  /\ con' = c
  /\ pc' = [pc EXCEPT ![t] = to]
  /\ UNCHANGED <<isolation_level, schema, vectors, last, cur>>

\* what the return of thread t's call leaves behind
Return(t, c, ret) ==
  /\ con' = c
  /\ pc' = [pc EXCEPT ![t] = "idle"]
  /\ last' = [op |-> "thread_insert", ret |-> ret,
              obs |-> [thread |-> t, v |-> cur[t].obs.v, before |-> cur[t].obs.before,
                       after |-> Count(c.db, Val(t))]]
  /\ UNCHANGED <<isolation_level, schema, vectors, cur>>

\* insert -> execute(as_transaction=True): cur.execute("BEGIN TRANSACTION;")
ThreadBegin(t) ==
  /\ pc[t] = "idle"
  /\ T \in Tables(con.db)
  /\ Len(Table(con.db, T).rows) + Cardinality(Busy) < MaxTableRows
  /\ \E v \in {Val(t), PyList} :
        /\ con' = EngBegin(con, FALSE).con
        /\ pc' = [pc EXCEPT ![t] = IF EngBegin(con, FALSE).ok THEN "begun" ELSE "failed"]
        /\ cur' = [cur EXCEPT ![t] = [op |-> "insert", ret |-> RNone,
                                      obs |-> [v |-> v, before |-> Count(con.db, Val(t))]]]
  /\ UNCHANGED <<isolation_level, schema, vectors, last>>

\* cur.execute(statement, list(params))
ThreadStatement(t, e) ==
  /\ pc[t] = "begun"
  /\ Step(t, e.con, IF e.ok THEN "ran" ELSE "failed")

\* self.con.commit(); return out
ThreadCommit(t, k) ==
  /\ pc[t] = "ran"
  /\ IF k.ok THEN Return(t, k.con, RTrue) ELSE Step(t, k.con, "failed")

\* except sqlite.Error: self.con.rollback(); return False
ThreadRollback(t) ==
  /\ pc[t] = "failed"
  /\ Return(t, EngRollback(con), RFalse)

Statement ==
  \E t \in Threads :
     ThreadStatement(t, EngExecute(con, isolation_level,
                                   InsertStmt(T, [keys |-> <<A>>, vals |-> <<cur[t].obs.v>>]),
                                   FALSE))

Begin == \E t \in Threads : ThreadBegin(t)

Commit == \E t \in Threads : ThreadCommit(t, EngCommit(con, FALSE))

Rollback == \E t \in Threads : ThreadRollback(t)

NextThreads ==
  \/ CreateTable
  \/ Begin
  \/ Statement
  \/ Commit
  \/ Rollback

SpecThreads == Init /\ [][NextThreads]_vars

(***************************** properties ***********************************)
TransactionalOps == {"insert", "update", "delete", "execute"}

\* C1: a call of execute with as_transaction=True (insert, update, delete
\* included) in which BEGIN, the statement or COMMIT fails issues a rollback,
\* returns False and leaves the database holding what it held before the
\* call, with no transaction left open.
C1_FailedTransactionRollsBack ==
  [][(/\ last'.op \in TransactionalOps
      /\ last' # last
      /\ last'.obs.as_transaction
      /\ (last'.obs.fault # "none" \/ ~last'.obs.runnable))
     => (/\ last'.obs.rb
         /\ last'.ret = RFalse
         /\ con'.db = con.db
         /\ ~con'.intxn)]_vars

\* an insert into a table that holds a row already failed at COMMIT
C1_Witness ==
  /\ last.op = "insert"
  /\ last.obs.fault = "commit"
  /\ last.obs.runnable
  /\ last.ret = RFalse
  /\ \E t \in con.db : Len(t.rows) > 0

\* C2: on a connection opened with the constructor's defaults
\* (isolation_level None), a call of executemany or executescript whose i-th
\* parameter set or statement fails returns False and leaves the database
\* holding what it held before the call.
C2_BatchIsOneTransaction ==
  [][(/\ last'.op \in {"executemany", "executescript"}
      /\ last' # last
      /\ isolation_level = "None"
      /\ last'.obs.done < last'.obs.n)
     => (last'.ret = RFalse /\ con'.db = con.db)]_vars

\* C3: a call of from_df with strict=True in which a row's insert fails
\* returns False, and after it the table's name is not among
\* get_table_names() and the database holds what it held before the call.
C3_StrictLoadLeavesNoResidue ==
  [][(/\ last'.op = "from_df"
      /\ last' # last
      /\ last'.obs.strict
      /\ FALSE \in Range(last'.obs.outs))
     => (/\ last'.ret = RFalse
         /\ ~table_exists(con', last'.obs.name)
         /\ con'.db = con.db)]_vars

\* a strict from_df whose first row went in and whose second row failed
C3_Witness ==
  /\ last.op = "from_df"
  /\ last.obs.strict
  /\ last.obs.outs = <<TRUE, FALSE>>
  /\ last.ret = RFalse

\* C8: once the table is created, from_df with strict=False and
\* create_table_from_json return the logical AND of the outcomes of the
\* rows' inserts, and the table stays.
C8_NonStrictReportsConjunction ==
  (/\ last.op \in {"from_df", "create_table_from_json"}
   /\ ~last.obs.strict
   /\ last.obs.create = "ok")
  => (/\ last.ret = RBool(FALSE \notin Range(last.obs.outs))
      /\ table_exists(con, last.obs.name))

BulkOps == {"from_df", "create_table_from_csv", "create_table_from_json"}

\* C9: when the CREATE TABLE of a bulk load fails (the table exists, or the
\* name is no identifier), from_df, create_table_from_csv and
\* create_table_from_json return False with no insert attempted and the
\* database, the existing table included, is unchanged.
C9_FailedCreateAborts ==
  [][(/\ last'.op \in BulkOps
      /\ last' # last
      /\ last'.obs.create # "skipped"
      /\ (\/ last'.obs.create = "failed"
          \/ last'.obs.existed
          \/ ~IsIdent(last'.obs.name)))
     => (/\ last'.ret = RFalse
         /\ last'.obs.outs = <<>>
         /\ con'.db = con.db)]_vars

\* create_table_from_json of two rows met an existing table with rows
C9_Witness ==
  /\ last.op = "create_table_from_json"
  /\ last.obs.create = "failed"
  /\ last.obs.existed
  /\ last.obs.n = MaxRows
  /\ last.ret = RFalse
  /\ Len(Table(con.db, last.obs.name).rows) > 0

\* C10: create_table_from_csv of a file with a header and at least one data
\* row, into a database with no table of the target name, returns True, and
\* the table then has the header's names with spaces replaced by underscores
\* as columns, typed by detect_type_csv of the first row, and one row per
\* data row.
C10_CsvLoadCreatesAndFills ==
  (/\ last.op = "create_table_from_csv"
   /\ last.obs.n >= 1
   /\ ~last.obs.existed
   /\ IsIdent(last.obs.name)
   /\ Distinct(last.obs.header))
  => (/\ last.ret = RTrue
      /\ last.obs.name \in Tables(con.db)
      /\ LET tbl == Table(con.db, last.obs.name)
         IN /\ tbl.cols = [i \in 1..Len(last.obs.header) |->
                             Replace(last.obs.header[i], " ", "_")]
            /\ tbl.types = [i \in 1..Len(last.obs.header) |->
                              detect_type_csv(last.obs.first)]
            /\ Len(tbl.rows) = last.obs.n)

\* C4: with check_same_thread relaxed and two threads inserting through one
\* instance, the transactions do not overlap, so that no operation's rollback
\* discards the work of an operation that reports success: an insert that
\* returns True has added its row to the table.
C4_RollbackSparesSuccess ==
  (last.op = "thread_insert" /\ last.ret = RTrue)
  => last.obs.after = last.obs.before + 1

\* C5: a fetch with one=True, or of a statement that ends in LIMIT 1 (with
\* or without the terminating semicolon), returns None for an empty row set
\* and otherwise the first row alone: the map if return_as_dict, the bare
\* scalar if the row has one column, else the row.
C5_OneModeShapesFirstRow ==
  (/\ last.op = "fetch"
   /\ last.obs.ok
   /\ LET sql == last.obs.sql
          n == Len(sql)
      IN \/ last.obs.one
         \/ sql[n] \in LimitOne
         \/ (sql[n] = ";" /\ sql[n - 1] \in LimitOne))
  => IF Len(last.obs.rows) = 0 THEN last.ret = RNone
     ELSE LET row == last.obs.rows[1]
          IN last.ret = IF last.obs.return_as_dict THEN RDict(last.obs.cols, row)
                        ELSE IF Len(row) = 1 THEN RVal(row[1])
                        ELSE RRow(row)

\* C6: a fetch in ALL mode returns the empty sequence for an empty row set;
\* with return_as_dict every row as a keyed map, never collapsed; without it
\* the bare scalars of one-column rows, as many and in the order of the
\* rows; and otherwise the rows unchanged and in order.
C6_AllModeShapesEveryRow ==
  (/\ last.op = "fetch"
   /\ last.obs.ok
   /\ ~last.obs.one
   /\ ~MatchesLimit1(last.obs.sql))
  => LET rows == last.obs.rows
     IN /\ last.ret.tag = "list"
        /\ Len(last.ret.v) = Len(rows)
        /\ \A i \in 1..Len(rows) :
              last.ret.v[i] = IF last.obs.return_as_dict THEN RDict(last.obs.cols, rows[i])
                              ELSE IF Len(rows[i]) = 1 THEN RVal(rows[i][1])
                              ELSE RRow(rows[i])

\* an ALL-mode fetch returned MaxRows one-column rows as maps
C6_Witness ==
  /\ last.op = "fetch"
  /\ last.obs.ok
  /\ ~last.obs.one
  /\ ~MatchesLimit1(last.obs.sql)
  /\ last.obs.return_as_dict
  /\ Len(last.obs.cols) = 1
  /\ last.ret.tag = "list"
  /\ Len(last.ret.v) = MaxRows
  /\ last.ret.v[1].tag = "dict"

\* C7 as stated: an engine error during a fetch is reported as the empty
\* sequence in ALL mode and as None in ONE mode.
C7_ErrorShapedByMode ==
  (last.op = "fetch" /\ ~last.obs.ok)
  => last.ret = IF last.obs.one \/ MatchesLimit1(last.obs.sql) THEN RNone ELSE RList(<<>>)

\* C7: an engine error during a fetch is not raised; the call returns None,
\* in ALL mode as in ONE mode.
C7_ErrorYieldsNone ==
  (last.op = "fetch" /\ ~last.obs.ok) => last.ret = RNone

\* an ALL-mode fetch met an engine error
C7_Witness ==
  /\ last.op = "fetch"
  /\ ~last.obs.ok
  /\ ~last.obs.one
  /\ ~MatchesLimit1(last.obs.sql)
  /\ last.ret = RNone

\* C11: the statement select builds is SELECT [DISTINCT] and the column list
\* (* when no columns are given), FROM and the table, then WHERE, GROUP BY,
\* HAVING, ORDER BY with ASC or DESC, and LIMIT/OFFSET, in this order; an
\* absent clause adds nothing, LIMIT/OFFSET are always there, and with every
\* optional part absent it is "SELECT * FROM <table> LIMIT -1 OFFSET 0;".
C11_SelectStatementOrder ==
  last.op = "select" =>
    LET q == last.obs.q
        Absent(x) == x = None \/ x = Some("")
        Clause(kw, x) == IF Absent(x) THEN <<>> ELSE <<kw, x[1]>>
        names == IF q.columns = None \/ q.columns = Some(<<>>) THEN <<"*">>
                 ELSE Join(q.columns[1])
    IN /\ last.obs.stmt =
            <<"SELECT ">> \o (IF q.distinct THEN <<"DISTINCT ">> ELSE <<>>) \o names
            \o <<" FROM ", q.table_name>>
            \o Clause(" WHERE ", q.where)
            \o Clause(" GROUP BY ", q.group_by)
            \o Clause(" HAVING ", q.having)
            \o (IF Absent(q.order_by) THEN <<>>
                ELSE <<" ORDER BY ", q.order_by[1], IF q.asc THEN " ASC" ELSE " DESC">>)
            \o <<LimitText(q.limit), OffsetText(q.offset)>>
       /\ (/\ ~q.distinct /\ names = <<"*">>
           /\ Absent(q.where) /\ Absent(q.group_by) /\ Absent(q.having) /\ Absent(q.order_by)
           /\ q.limit = -1 /\ q.offset = 0)
          => last.obs.stmt = <<"SELECT ", "*", " FROM ", q.table_name, " LIMIT -1", " OFFSET 0;">>

\* a select with every clause given has built its statement
C11_Witness ==
  /\ last.op = "select"
  /\ last.obs.q.distinct
  /\ last.obs.q.columns = Some(<<"a", "b">>)
  /\ last.obs.q.where = Some("a = 1")
  /\ last.obs.q.group_by # None
  /\ last.obs.q.having # None
  /\ last.obs.q.order_by # None
  /\ ~last.obs.q.asc
  /\ Len(last.obs.stmt) = 18

\* C17: select called with fetch=n returns at most n rows, the first n in
\* order, each shaped as in ALL mode.
C17_ManyModeTakesFirstN ==
  (/\ last.op = "select"
   /\ last.obs.raw.ok
   /\ last.obs.q.fetch # None
   /\ last.obs.q.limit # 1)
  => LET rows == last.obs.raw.rows
         n == IF last.obs.q.fetch[1] < Len(rows) THEN last.obs.q.fetch[1] ELSE Len(rows)
     IN /\ last.ret.tag = "list"
        /\ Len(last.ret.v) = n
        /\ \A i \in 1..n :
              last.ret.v[i] = IF last.obs.q.return_as_dict
                              THEN RDict(last.obs.raw.cols, rows[i])
                              ELSE RVal(rows[i][1])

\* C12 as stated: a delete whose WHERE is left out or empty is reported to
\* the caller as an error raised before any statement reaches the engine,
\* and no row is deleted.
C12_NoWhereIsBuildError ==
  [][(/\ last'.op = "delete"
      /\ last' # last
      /\ last'.obs.fault = "none"
      /\ last'.obs.where \in {"omitted", "empty"})
     => (/\ last'.ret.tag = "raise"
         /\ ~last'.obs.sent
         /\ con'.db = con.db)]_vars

\* C12: a delete whose WHERE is left out raises (TypeError) before any
\* statement reaches the engine; a delete whose WHERE is empty sends
\* "DELETE FROM <table> WHERE ;" to the engine, which rejects it, and the
\* call rolls back and returns False; in both cases no row is deleted.
C12_NoWhereDeletesNothing ==
  [][(/\ last'.op = "delete"
      /\ last' # last
      /\ last'.obs.where \in {"omitted", "empty"})
     => (/\ con'.db = con.db
         /\ IF last'.obs.where = "omitted"
            THEN last'.ret = RRaise("TypeError") /\ ~last'.obs.sent
            ELSE /\ last'.ret = RFalse
                 /\ last'.obs.rb
                 /\ (last'.obs.fault = "none" => last'.obs.sent))]_vars

\* a delete with an empty WHERE on a table that holds a row returned False
C12_Witness ==
  /\ last.op = "delete"
  /\ last.obs.where = "empty"
  /\ last.obs.fault = "none"
  /\ last.obs.sent
  /\ last.ret = RFalse
  /\ \E t \in con.db : Len(t.rows) > 0

\* C13: detect_type_csv returns integer exactly for a value whose text is
\* one or more decimal digits and nothing else; otherwise real exactly for
\* digits, a dot, digits; otherwise blob for bytes; otherwise text.
C13_CsvTypeByText ==
  last.op = "detect_type_csv" =>
    LET t == last.obs.data.text
        OnlyDigits(u) == Len(u) >= 1 /\ \A i \in 1..Len(u) : u[i] \in {"0", "1", "2"}
        DigitsDotDigits == \E d \in 2..(Len(t) - 1) :
                              /\ t[d] = "."
                              /\ OnlyDigits(SubSeq(t, 1, d - 1))
                              /\ OnlyDigits(SubSeq(t, d + 1, Len(t)))
    IN last.ret = RVal(IF OnlyDigits(t) THEN "integer"
                       ELSE IF DigitsDotDigits THEN "real"
                       ELSE IF last.obs.data.kind = "bytes" THEN "blob"
                       ELSE "text")

\* C14: detect_type_json returns integer for a whole number, real for a
\* fractional number, blob for bytes and text for every other value:
\* strings, booleans, null, arrays and objects.
C14_JsonTypeByKind ==
  last.op = "detect_type_json" =>
    last.ret = RVal(CASE last.obs.data.kind = "int" -> "integer"
                      [] last.obs.data.kind = "float" -> "real"
                      [] last.obs.data.kind = "bytes" -> "blob"
                      [] OTHER -> "text")

VectorOps == {"add_embedding", "create_embedding_db", "k_nearest_embeddings"}

\* C15: on an instance constructed with enable_vectors=False every call of
\* add_embedding, create_embedding_db and k_nearest_embeddings raises the
\* capability error ("vectors not enabled"), not a False or None, and sends
\* no statement to the engine.
C15_DisabledVectorsRaise ==
  (last.op \in VectorOps /\ ~vectors.enable_vectors)
  => (/\ last.ret = RRaise("RuntimeError")
      /\ ~last.obs.sent
      /\ last.obs.same)

C18_EmptyInputIsFalse ==
  (last.op \in BulkOps /\ last.obs.n = 0)
  => (/\ last.ret = RFalse
      /\ (last.obs.existed \/ last.obs.name \notin Tables(con.db)))

\* C19: for a statement whose result has a row, fetch_first_value returns
\* the value of the first column of the first row, however many columns are
\* selected; for an empty result it returns None.
C19_FirstValueOfFirstRow ==
  (last.op = "fetch_first_value" /\ last.obs.raw.ok)
  => last.ret = IF Len(last.obs.raw.rows) = 0 THEN RNone
                ELSE RVal(last.obs.raw.rows[1][1])
====
